---- MODULE Spec2Model ----
(***************************************************************************)
(* Model of the Osmosis CLI wrapper (src/src/main.rs).                     *)
(*                                                                         *)
(* A Rust String is modelled as what it is: a sequence of UTF-8 bytes      *)
(* (0..255).  Text literals of the source are written with Txt.            *)
(*                                                                         *)
(* Three specifications share the variables:                               *)
(*   SpecDecode     the pure function decode (base64 with fall-back)       *)
(*   SpecSummarize  the pure function summarize_events                     *)
(*   Spec           main and the command handlers                          *)
(*                                                                         *)
(* Environment taken as given (not modelled as failing): the registry      *)
(* file CONTRACTS exists and holds a JSON object whose values are strings, *)
(* the osmosisd executable can be spawned, and its output is UTF-8.        *)
(***************************************************************************)
EXTENDS Integers, Sequences, FiniteSets, TLC

VARIABLES
    pc,             \* position of the running specification
    overflow_checks,\* build setting: does `len() - 2` panic on underflow
    registry,       \* entries of the CONTRACTS document, in iteration order
    dec_in,         \* decode: the argument `encoded`
    dec_src,        \* decode: the bytes dec_in was encoded from (if it was)
    dec_kind,       \* decode: how the input was drawn: "encoded" or "other"
    dec_out,        \* decode: the returned Vec<u8>
    sum_events,     \* summarize_events: the argument `events`
    sum_encoding,   \* summarize_events: the argument `encoding`
    sum_out,        \* summarize_events: the result (or a panic)
    cmd,            \* main: --cmd
    contract_name,  \* main: --contract (default "")
    json_readable,  \* main: can the file at --json be read
    tx_hash,        \* main: --tx (default "")
    amount,         \* main: --amount formatted, or ""
    address,        \* main: the result of get_contract_address
    daemon_calls,   \* the osmosisd command lines run so far
    output,         \* the Output of the last osmosisd run
    parse_attempts, \* number of serde_json::from_str calls on the tx reply
    out,            \* standard output: the items printed, in order
    err,            \* standard error: the texts printed, in order
    panic           \* the panic message, "" while none

vars == << pc, overflow_checks, registry, dec_in, dec_src, dec_kind, dec_out,
           sum_events, sum_encoding, sum_out, cmd, contract_name,
           json_readable, tx_hash, amount, address, daemon_calls, output,
           parse_attempts, out, err, panic >>

----------------------------------------------------------------------------
(* Text: printable ASCII, code 32 .. 126, and the newline.  Four symbols   *)
(* are held by a placeholder name, so that the table keeps its positions.  *)

Printable ==
    << " ", "!", "QUOTE", "#", "$", "%", "&", "APOS", "(", ")", "*", "+", ",", "-",
       ".", "/", "0", "1", "2", "3", "4", "5", "6", "7", "8", "9", ":", ";",
       "<", "=", ">", "?", "@", "A", "B", "C", "D", "E", "F", "G", "H", "I",
       "J", "K", "L", "M", "N", "O", "P", "Q", "R", "S", "T", "U", "V", "W",
       "X", "Y", "Z", "[", "BACKSLASH", "]", "^", "_", "GRAVE", "a", "b", "c", "d", "e",
       "f", "g", "h", "i", "j", "k", "l", "m", "n", "o", "p", "q", "r", "s",
       "t", "u", "v", "w", "x", "y", "z", "{", "|", "}", "~" >>

Ord(c) ==
    IF c = "\n" THEN 10
    ELSE 31 + (CHOOSE i \in 1..Len(Printable) : Printable[i] = c)

Txt(cs) == [i \in 1..Len(cs) |-> Ord(cs[i])]

RECURSIVE Concat(_)
Concat(ss) == IF ss = << >> THEN << >> ELSE Head(ss) \o Concat(Tail(ss))

RECURSIVE SeqsUpTo(_, _)
SeqsUpTo(S, n) ==
    IF n = 0 THEN { << >> }
    ELSE LET shorter == SeqsUpTo(S, n - 1)
         IN  shorter \cup { Append(s, x) : s \in shorter, x \in S }

----------------------------------------------------------------------------
(* base64::decode, standard alphabet, canonical padding (RFC 4648).        *)

B64Alphabet ==
    Txt(<< "A", "B", "C", "D", "E", "F", "G", "H", "I", "J", "K", "L", "M",
           "N", "O", "P", "Q", "R", "S", "T", "U", "V", "W", "X", "Y", "Z",
           "a", "b", "c", "d", "e", "f", "g", "h", "i", "j", "k", "l", "m",
           "n", "o", "p", "q", "r", "s", "t", "u", "v", "w", "x", "y", "z",
           "0", "1", "2", "3", "4", "5", "6", "7", "8", "9", "+", "/" >>)

PadByte == Ord("=")

\* The decode table: the place of a byte in the alphabet, 64 for a byte
\* that is not in it.
DecodeTable ==
    [b \in 0..255 |->
        IF \E i \in 1..64 : B64Alphabet[i] = b
        THEN (CHOOSE i \in 1..64 : B64Alphabet[i] = b) - 1
        ELSE 64]

IsB64Symbol(b) == DecodeTable[b] < 64

Sextet(b) == DecodeTable[b]

\* The number of trailing pad bytes of s, at most two counted.
PadCount(s) ==
    IF Len(s) >= 2 /\ s[Len(s)] = PadByte /\ s[Len(s) - 1] = PadByte THEN 2
    ELSE IF Len(s) >= 1 /\ s[Len(s)] = PadByte THEN 1
    ELSE 0

\* The bytes of one quantum of 2, 3 or 4 symbols; ok is FALSE when the
\* bits left over after the last whole byte are not zero.
QuantumBytes(len, n) ==
    IF len = 4
    THEN [ok |-> TRUE,
          bytes |-> << n \div 65536, (n \div 256) % 256, n % 256 >>]
    ELSE IF len = 3
    THEN [ok |-> n % 4 = 0, bytes |-> << n \div 1024, (n \div 4) % 256 >>]
    ELSE [ok |-> n % 16 = 0, bytes |-> << n \div 16 >>]

\* The symbols of q as one number, six bits each.
RECURSIVE QuantumValue(_, _)
QuantumValue(q, k) ==
    IF k = 0 THEN 0 ELSE QuantumValue(q, k - 1) * 64 + Sextet(q[k])

DecodeQuantum(q) == QuantumBytes(Len(q), QuantumValue(q, Len(q)))

Joined(first, rest) ==
    [ok |-> first.ok /\ rest.ok, bytes |-> first.bytes \o rest.bytes]

RECURSIVE DecodeSymbols(_)
DecodeSymbols(syms) ==
    IF syms = << >> THEN [ok |-> TRUE, bytes |-> << >>]
    ELSE Joined(DecodeQuantum(SubSeq(syms, 1, IF Len(syms) < 4 THEN Len(syms) ELSE 4)),
                DecodeSymbols(SubSeq(syms, 5, Len(syms))))

Base64Decode(s) ==
    LET pad  == PadCount(s)
        syms == SubSeq(s, 1, Len(s) - pad)
    IN  IF /\ Len(s) % 4 = 0
           /\ \A i \in 1..Len(syms) : IsB64Symbol(syms[i])
        THEN DecodeSymbols(syms)
        ELSE [ok |-> FALSE, bytes |-> << >>]

\* Variant of MatchDecoded: a failed decoding yields no bytes.
MatchDecodedOrEmpty(result, encoded) ==
    IF result.ok THEN result.bytes ELSE << >>

\* match result { Ok(decoded) => decoded, Err(_) => encoded.as_bytes().to_vec() }
MatchDecoded(result, encoded) ==
    IF result.ok THEN result.bytes ELSE encoded

\* fn decode(encoded: &str) -> Vec<u8>
decode(encoded) == MatchDecoded(Base64Decode(encoded), encoded)

----------------------------------------------------------------------------
(* String::from_utf8_lossy: valid sequences are kept, every maximal        *)
(* invalid part becomes U+FFFD (EF BF BD).                                 *)

Replacement == << 239, 191, 189 >>

IsCont(b) == b \in 128..191

Utf8Width(b) ==
    IF b < 128 THEN 1
    ELSE IF b \in 194..223 THEN 2
    ELSE IF b \in 224..239 THEN 3
    ELSE IF b \in 240..244 THEN 4
    ELSE 0

SecondOk(b1, b2) ==
    \/ b1 \in 194..223 /\ IsCont(b2)
    \/ b1 = 224 /\ b2 \in 160..191
    \/ b1 \in 225..236 /\ IsCont(b2)
    \/ b1 = 237 /\ b2 \in 128..159
    \/ b1 \in 238..239 /\ IsCont(b2)
    \/ b1 = 240 /\ b2 \in 144..191
    \/ b1 \in 241..243 /\ IsCont(b2)
    \/ b1 = 244 /\ b2 \in 128..143

\* The chunk that starts at bs[i]: is it a valid character, and how many
\* bytes does it take.
Utf8Chunk(bs, i) ==
    LET get(k) == IF k <= Len(bs) THEN bs[k] ELSE 0
        w      == Utf8Width(bs[i])
    IN  IF w = 1 THEN [valid |-> TRUE, len |-> 1]
        ELSE IF w = 0 \/ ~SecondOk(bs[i], get(i + 1))
        THEN [valid |-> FALSE, len |-> 1]
        ELSE IF w = 2 THEN [valid |-> TRUE, len |-> 2]
        ELSE IF ~IsCont(get(i + 2)) THEN [valid |-> FALSE, len |-> 2]
        ELSE IF w = 3 THEN [valid |-> TRUE, len |-> 3]
        ELSE IF ~IsCont(get(i + 3)) THEN [valid |-> FALSE, len |-> 3]
        ELSE [valid |-> TRUE, len |-> 4]

RECURSIVE Utf8LossyFrom(_, _)
Utf8LossyFrom(bs, i) ==
    IF i > Len(bs) THEN << >>
    ELSE LET c == Utf8Chunk(bs, i)
         IN  (IF c.valid THEN SubSeq(bs, i, i + c.len - 1) ELSE Replacement)
             \o Utf8LossyFrom(bs, i + c.len)

from_utf8_lossy(bs) == Utf8LossyFrom(bs, 1)

----------------------------------------------------------------------------
(* The registry: the JSON object of CONTRACTS as the sequence of its       *)
(* entries [name, address] in the iteration order of the map.              *)

None == [some |-> FALSE, val |-> << >>]
Some(v) == [some |-> TRUE, val |-> v]

unwrap_or(opt, default) == IF opt.some THEN opt.val ELSE default

\* Variant of get_contract_address: an unknown name yields the empty
\* address instead of the panic.
get_contract_address_or_default(reg, name) ==
    IF \E i \in 1..Len(reg) : reg[i].name = name
    THEN Some(reg[CHOOSE i \in 1..Len(reg) : reg[i].name = name].address)
    ELSE Some(<< >>)

\* fn get_contract_address(contract_name: &str) -> String
\* None stands for the panic of expect("Invalid contract name").
get_contract_address(reg, name) ==
    IF \E i \in 1..Len(reg) : reg[i].name = name
    THEN Some(reg[CHOOSE i \in 1..Len(reg) : reg[i].name = name].address)
    ELSE None

\* fn get_contract_name(contract_address: &str) -> Option<String>
get_contract_name(reg, contract_address) ==
    LET hits == { i \in 1..Len(reg) : reg[i].address = contract_address }
    IN  IF hits = {} THEN None
        ELSE Some(reg[CHOOSE i \in hits : \A j \in hits : i <= j].name)

----------------------------------------------------------------------------
(* summarize_events.  The accumulator events_short is carried with a       *)
(* panic flag: [panic, s].                                                 *)

is_char_boundary(s, index) ==
    \/ index = 0
    \/ index = Len(s)
    \/ index < Len(s) /\ ~IsCont(s[index + 1])

\* Variant of TruncateTwo: one byte is cut instead of two.
TruncateOne(acc, checks) ==
    IF acc.panic \/ acc.s = << >> THEN acc
    ELSE [panic |-> FALSE, s |-> SubSeq(acc.s, 1, Len(acc.s) - 1)]

\* events_short.truncate(events_short.len() - 2)
\* usize subtraction: below zero it panics when overflow checks are on and
\* wraps to a length beyond the end (truncate then does nothing) otherwise.
TruncateTwo(acc, checks) ==
    IF acc.panic THEN acc
    ELSE IF Len(acc.s) < 2
    THEN [panic |-> checks, s |-> acc.s]
    ELSE IF ~is_char_boundary(acc.s, Len(acc.s) - 2)
    THEN [panic |-> TRUE, s |-> acc.s]
    ELSE [panic |-> FALSE, s |-> SubSeq(acc.s, 1, Len(acc.s) - 2)]

\* The literals of the format strings of summarize_events.
Arrow == Txt(<< "-", "-", ">", " " >>)
OpenParen == Txt(<< "(", " " >>)
ColonSpace == Txt(<< ":", " " >>)
CommaSpace == Txt(<< ",", " " >>)
SpaceParen == Txt(<< " ", "(" >>)
CloseParen == Txt(<< ")" >>)
CloseBlock == Txt(<< " ", ")", "\n" >>)
SkippedType == Txt(<< "t", "x" >>)

\* if !contract_name.is_empty() { "{}: {} ({}), " } else { "{}: {}, " }
Annotated(key, value, name) ==
    IF name # << >>
    THEN key \o ColonSpace
         \o (value \o SpaceParen \o name \o CloseParen)
         \o CommaSpace
    ELSE key \o ColonSpace \o value \o CommaSpace

\* The registry is asked for the value as it will be shown.
Looked(key, value, reg) ==
    Annotated(key, value, unwrap_or(get_contract_name(reg, value), << >>))

\* One attribute rendered: the text appended to events_short.
RenderAttribute(attribute, encoding, reg) ==
    IF encoding
    THEN Looked(from_utf8_lossy(decode(attribute.key)),
                from_utf8_lossy(decode(attribute.value)), reg)
    ELSE Looked(attribute.key, attribute.value, reg)

RECURSIVE RenderAttributes(_, _, _)
RenderAttributes(attributes, encoding, reg) ==
    IF attributes = << >> THEN << >>
    ELSE RenderAttribute(Head(attributes), encoding, reg)
         \o RenderAttributes(Tail(attributes), encoding, reg)

\* events_short += " )\n";
Close(acc) ==
    IF acc.panic THEN acc ELSE [panic |-> FALSE, s |-> acc.s \o CloseBlock]

\* Variant of SummarizeEvent: the test of the event type is left out.
SummarizeEventUnfiltered(acc, event, encoding, reg, checks) ==
    IF acc.panic THEN acc
    ELSE Close(TruncateTwo(
             [panic |-> FALSE,
              s |-> acc.s \o Arrow \o event.event_type \o OpenParen
                    \o RenderAttributes(event.attributes, encoding, reg)],
             checks))

\* The body of the for_each closure, for one event.
SummarizeEvent(acc, event, encoding, reg, checks) ==
    IF acc.panic THEN acc
    ELSE IF event.event_type # SkippedType
    THEN Close(TruncateTwo(
             [panic |-> FALSE,
              s |-> acc.s \o Arrow \o event.event_type \o OpenParen
                    \o RenderAttributes(event.attributes, encoding, reg)],
             checks))
    ELSE acc

RECURSIVE SummarizeFrom(_, _, _, _, _)
SummarizeFrom(acc, events, encoding, reg, checks) ==
    IF events = << >> THEN acc
    ELSE SummarizeFrom(SummarizeEvent(acc, Head(events), encoding, reg, checks),
                       Tail(events), encoding, reg, checks)

\* fn summarize_events(mut events: Vec<Event>, encoding: bool) -> String
summarize_events(events, encoding, reg, checks) ==
    SummarizeFrom([panic |-> FALSE, s |-> << >>], events, encoding, reg, checks)

----------------------------------------------------------------------------
(* Inputs.                                                                 *)

MaxBytes == 3
MaxAttrs == 2
MaxEvents == 2

\* RFC 4648 encoding with padding: what a producer of base64 text emits.
EncodeGroup(g) ==
    LET n == IF Len(g) = 3 THEN g[1] * 65536 + g[2] * 256 + g[3]
             ELSE IF Len(g) = 2 THEN g[1] * 1024 + g[2] * 4
             ELSE g[1] * 16
        sym(k) == B64Alphabet[k + 1]
    IN  IF Len(g) = 3
        THEN << sym(n \div 262144), sym((n \div 4096) % 64),
                sym((n \div 64) % 64), sym(n % 64) >>
        ELSE IF Len(g) = 2
        THEN << sym(n \div 4096), sym((n \div 64) % 64), sym(n % 64),
                PadByte >>
        ELSE << sym(n \div 64), sym(n % 64), PadByte, PadByte >>

RECURSIVE Base64Encode(_)
Base64Encode(bs) ==
    IF bs = << >> THEN << >>
    ELSE IF Len(bs) <= 3 THEN EncodeGroup(bs)
    ELSE EncodeGroup(SubSeq(bs, 1, 3)) \o Base64Encode(SubSeq(bs, 4, Len(bs)))

\* Bytes the encoded inputs are made of: NUL, two letters, a lone
\* continuation byte and a byte no UTF-8 text holds.
BytePool == { 0, 97, 122, 128, 255 }

\* Texts that are not the base64 encoding of anything.
OtherTexts ==
    { Txt(<< "a", "c", "t", "i", "o", "n" >>),      \* length not 4k
      Txt(<< "Y", "Q" >>),                          \* padding left out
      Txt(<< "Y", "Q", "=" >>),                     \* one pad short
      Txt(<< "Y", "=", "=", "=" >>),                \* one symbol only
      Txt(<< "=", "Y", "Q", "=" >>),                \* pad in front
      Txt(<< "Y", "Q", "=", "=", "Y", "Q", "=", "=" >>), \* pad inside
      Txt(<< "Y", "R", "=", "=" >>),                \* loose bits not zero
      Txt(<< "Y", "W", "J", "=" >>),                \* loose bits not zero
      Txt(<< "Y", "Q", "!", "=" >>),                \* outside the alphabet
      Txt(<< "Y", "W", "-", "_" >>),                \* url-safe alphabet
      Txt(<< " ", "Y", "Q", "=", "=" >>),           \* white space
      Txt(<< "Y", "Q", "=", "=", "\n" >>),          \* trailing newline
      << 195, 169 >>,                               \* e acute, two bytes
      << 195, 169, 195, 169 >> }                    \* four bytes, not ASCII

NameVault == Txt(<< "v", "a", "u", "l", "t" >>)
NameBank == Txt(<< "b", "a", "n", "k" >>)
AddrAbc == Txt(<< "o", "s", "m", "o", "1", "a", "b", "c" >>)
AddrXyz == Txt(<< "o", "s", "m", "o", "1", "x", "y", "z" >>)
KeyAction == Txt(<< "a", "c", "t", "i", "o", "n" >>)

\* Registry documents: empty; one contract; two names for one address
\* (BTreeMap order, bank before vault); a contract under the empty name.
Registries ==
    { << >>,
      << [name |-> NameVault, address |-> AddrAbc] >>,
      << [name |-> NameBank, address |-> AddrAbc],
         [name |-> NameVault, address |-> AddrAbc] >>,
      << [name |-> << >>, address |-> AddrAbc],
         [name |-> NameVault, address |-> AddrXyz] >> }

\* struct Attribute: as the node sends it in `events` (base64) and as it
\* sends it in `logs` (plain).
AttrEncoded == [key |-> Base64Encode(KeyAction), value |-> Base64Encode(AddrAbc)]
AttrPlain == [key |-> KeyAction, value |-> AddrAbc]
AttrPool == { AttrEncoded, AttrPlain }

TypeWasm == Txt(<< "w", "a", "s", "m" >>)

\* struct Event
EventPool ==
    { [event_type |-> SkippedType, attributes |-> << AttrPlain >>] }
    \cup { [event_type |-> TypeWasm, attributes |-> as] :
             as \in SeqsUpTo(AttrPool, MaxAttrs) }

NoResult == [panic |-> FALSE, s |-> << >>]

DecodeIdle ==
    /\ dec_in = << >> /\ dec_src = << >> /\ dec_kind = "none"
    /\ dec_out = << >>

SummarizeIdle ==
    /\ sum_events = << >> /\ sum_encoding = FALSE /\ sum_out = NoResult

----------------------------------------------------------------------------
(* SpecDecode: decode applied to one input.                                *)

Decode ==
    /\ pc = "decode"
    /\ dec_out' = decode(dec_in)
    /\ pc' = "decoded"
    /\ UNCHANGED << overflow_checks, registry, dec_in, dec_src, dec_kind,
                    sum_events, sum_encoding, sum_out, cmd, contract_name,
                    json_readable, tx_hash, amount, address, daemon_calls,
                    output, parse_attempts, out, err, panic >>

----------------------------------------------------------------------------
(* SpecSummarize: summarize_events applied to one sequence of events.      *)

Summarize ==
    /\ pc = "summarize"
    /\ sum_out' = summarize_events(sum_events, sum_encoding, registry,
                                   overflow_checks)
    /\ pc' = "summarized"
    /\ UNCHANGED << overflow_checks, registry, dec_in, dec_src, dec_kind,
                    dec_out, sum_events, sum_encoding, cmd, contract_name,
                    json_readable, tx_hash, amount, address, daemon_calls,
                    output, parse_attempts, out, err, panic >>

----------------------------------------------------------------------------
(* The transaction reply and the process Output.                           *)
(*                                                                         *)
(* The text on the standard output of osmosisd is held by what serde_json  *)
(* makes of it: kind "malformed" is no JSON at all, "wrong_shape" is JSON  *)
(* that is no Data, "tx" is the JSON of the Data in `data`.                *)

NoData == [messages |-> << >>, events |-> << >>, logs |-> << >>]
NoStdout == [kind |-> "none", data |-> NoData]
NoMessage == [sender |-> << >>, contract |-> << >>]
NoOutput == [success |-> FALSE, stdout |-> NoStdout, stderr |-> << >>]

Sender1 == Txt(<< "o", "s", "m", "o", "1", "s", "1" >>)
Sender2 == Txt(<< "o", "s", "m", "o", "1", "s", "2" >>)

\* struct Message
Message1 == [sender |-> Sender1, contract |-> AddrAbc]
Message2 == [sender |-> Sender2, contract |-> AddrXyz]
MessageLists == { << >>, << Message1 >>, << Message2, Message1 >> }

EvTx == [event_type |-> SkippedType, attributes |-> << AttrPlain >>]
EvNone == [event_type |-> TypeWasm, attributes |-> << >>]
EvEncoded == [event_type |-> TypeWasm, attributes |-> << AttrEncoded >>]
EvPlain == [event_type |-> TypeWasm, attributes |-> << AttrPlain >>]
EvBoth == [event_type |-> TypeWasm,
           attributes |-> << AttrPlain, AttrEncoded >>]

\* Data.events
TopEventLists == { << >>, << EvTx, EvEncoded >>, << EvBoth, EvNone >> }

\* struct Log, and Data.logs
Log0 == [msg_index |-> 0, events |-> << EvPlain, EvTx >>]
Log1 == [msg_index |-> 1, events |-> << EvBoth >>]
LogLists == { << >>, << Log0 >>, << Log1, Log0 >> }

\* struct Data
DataPool ==
    [messages : MessageLists, events : TopEventLists, logs : LogLists]

Stdouts ==
    { [kind |-> "malformed", data |-> NoData],
      [kind |-> "wrong_shape", data |-> NoData] }
    \cup { [kind |-> "tx", data |-> d] : d \in DataPool }

StderrTexts == { << >>, Txt(<< "n", "o", "t", " ", "f", "o", "u", "n", "d" >>) }

\* std::process::Output
Outputs == [success : BOOLEAN, stdout : Stdouts, stderr : StderrTexts]

\* serde_json::from_str::<Data>(stdout)
ParseData(stdout) ==
    IF stdout.kind = "tx" THEN Some(stdout.data)
    ELSE [some |-> FALSE, val |-> NoData]

\* serde_json::from_str::<Value>(&stdout_str)
IsJson(stdout) == stdout.kind # "malformed"

----------------------------------------------------------------------------
(* What is printed.  Every item has the same fields, unused ones empty.    *)

Item(tag, raw, text, message) ==
    [tag |-> tag, raw |-> raw, text |-> text, message |-> message]

\* println!("{}", stdout)
RawItem(stdout) == Item("raw", stdout, << >>, NoMessage)
\* println!("{}", text)
Line(text) == Item("line", NoStdout, text, NoMessage)
\* println!("Message:\n{}", json_str)
MessageItem(m) == Item("message", NoStdout, << >>, m)
\* println!("{}", serde_json::to_string_pretty(&json).unwrap())
PrettyItem(stdout) == Item("pretty", stdout, << >>, NoMessage)
\* println!("stderr:\n{}", stderr_str)
StderrBlock(text) == Item("stderr_block", NoStdout, text, NoMessage)
\* println!("stdout:\n{}", stdout_str)
StdoutBlock(stdout) == Item("stdout_block", stdout, << >>, NoMessage)

HdrSender ==
    Txt(<< "-", "-", ">", " ", "S", "e", "n", "d", "e", "r", " ", "<", "-",
           "-" >>)
HdrMessages ==
    Txt(<< "-", "-", ">", " ", "M", "e", "s", "s", "a", "g", "e", "s", " ",
           "<", "-", "-" >>)
HdrEvents ==
    Txt(<< "-", "-", ">", " ", "E", "v", "e", "n", "t", "s", " ", "<", "-",
           "-" >>)
HdrLogs ==
    Txt(<< "-", "-", ">", " ", "L", "o", "g", "s", " ", "<", "-", "-" >>)
NeedHash ==
    Txt(<< "N", "e", "e", "d", " ", "a", " ", "t", "x", " ", "h", "a", "s",
           "h", " ", "t", "o", " ", "g", "e", "t", " ", "e", "v", "e", "n",
           "t", "s" >>)
BadCmd ==
    Txt(<< "C", "m", "d", " ", "s", "h", "o", "u", "l", "d", " ", "b", "e",
           " ", "e", "i", "t", "h", "e", "r", " ", "q", "u", "e", "r", "y",
           " ", "o", "r", " ", "e", "x", "e", "c", "u", "t", "e" >>)
FailedPrefix ==
    Txt(<< "C", "o", "m", "m", "a", "n", "d", " ", "e", "x", "e", "c", "u",
           "t", "i", "o", "n", " ", "f", "a", "i", "l", "e", "d", ":", " " >>)

\* fn print_result(output: Output)
print_result(o) ==
    IF IsJson(o.stdout) THEN << PrettyItem(o.stdout) >>
    ELSE IF o.stderr # << >> THEN << StderrBlock(o.stderr) >>
    ELSE << StdoutBlock(o.stdout) >>

\* The effect of a handler: what it printed, and how it ended.
Effect(printed, errors, message, parses) ==
    [out |-> printed, err |-> errors, panic |-> message, parses |-> parses]

\* get_tx_data, lines 206 to 224, given the two summaries.
Report(raw, data, events_short, logs_short) ==
        IF data.messages = << >>
        THEN Effect(raw, << >>, "index out of bounds", 1)
        ELSE IF events_short.panic
        THEN Effect(raw, << >>, "truncate", 1)
        ELSE IF data.logs = << >>
        THEN Effect(raw, << >>, "index out of bounds", 1)
        ELSE IF logs_short.panic
        THEN Effect(raw, << >>, "truncate", 1)
        ELSE Effect(raw
                    \o << Line(HdrSender), Line(data.messages[1].sender),
                          Line(HdrMessages) >>
                    \o [i \in 1..Len(data.messages) |->
                          MessageItem(data.messages[i])]
                    \o << Line(HdrEvents), Line(events_short.s),
                          Line(HdrLogs), Line(logs_short.s) >>,
                    << >>, "", 1)

\* Variant of ReportTx: the two summaries are made with the encoding flags
\* the other way round.
ReportTxFlagsSwapped(raw, data, reg, checks) ==
    Report(raw, data,
           summarize_events(data.events, FALSE, reg, checks),
           IF data.logs = << >> THEN NoResult
           ELSE summarize_events(data.logs[1].events, TRUE, reg, checks))

\* get_tx_data, lines 206 to 224: the parsed reply is read and reported.
ReportTx(raw, data, reg, checks) ==
    Report(raw, data,
           summarize_events(data.events, TRUE, reg, checks),
           IF data.logs = << >> THEN NoResult
           ELSE summarize_events(data.logs[1].events, FALSE, reg, checks))

\* Variant of get_tx_data: a reply that does not parse is read as an empty
\* Data instead of the panic.
get_tx_data_parse_lenient(o, reg, checks) ==
    IF o.success
    THEN ReportTx(<< RawItem(o.stdout) >>, ParseData(o.stdout).val, reg, checks)
    ELSE Effect(<< >>, << FailedPrefix \o o.stderr >>, "", 0)

\* Variant of get_tx_data: the exit status is not looked at.
get_tx_data_status_ignored(o, reg, checks) ==
    LET raw    == << RawItem(o.stdout) >>
        parsed == ParseData(o.stdout)
    IN  IF ~parsed.some
        THEN Effect(raw, << >>, "Failed to parse JSON", 1)
        ELSE ReportTx(raw, parsed.val, reg, checks)

\* fn get_tx_data(tx_hash: &str), after the daemon returned `o`.
get_tx_data(o, reg, checks) ==
    IF o.success
    THEN LET raw    == << RawItem(o.stdout) >>
             parsed == ParseData(o.stdout)
         IN  IF ~parsed.some
             THEN Effect(raw, << >>, "Failed to parse JSON", 1)
             ELSE ReportTx(raw, parsed.val, reg, checks)
    ELSE Effect(<< >>, << FailedPrefix \o o.stderr >>, "", 0)

----------------------------------------------------------------------------
(* Spec: main.  One action for each arm of `match cmd`.                    *)

Call(verb, target, extra) == [verb |-> verb, target |-> target, extra |-> extra]

MainIdle ==
    /\ cmd = "" /\ contract_name = << >> /\ json_readable = FALSE
    /\ tx_hash = << >> /\ amount = << >> /\ address = << >>
    /\ daemon_calls = << >> /\ output = NoOutput /\ parse_attempts = 0
    /\ out = << >> /\ err = << >> /\ panic = ""

Abort(message) ==
    /\ panic' = message
    /\ pc' = "panicked"
    /\ UNCHANGED << address, daemon_calls, output, parse_attempts, out, err >>

\* The arguments of execute_tx and query_contract are evaluated first, left
\* to right: get_contract_address, then get_json.  Then the daemon runs.
RunOnContract(verb, extra) ==
    LET found == get_contract_address(registry, contract_name)
    IN  IF ~found.some THEN Abort("Invalid contract name")
        ELSE IF ~json_readable THEN Abort("Failed to read JSON file")
        ELSE \E o \in Outputs :
                /\ address' = found.val
                /\ daemon_calls' = Append(daemon_calls,
                                          Call(verb, found.val, extra))
                /\ output' = o
                /\ out' = out \o print_result(o)
                /\ pc' = "done"
                /\ UNCHANGED << parse_attempts, err, panic >>

\* "execute" => execute_tx(get_contract_address(..), get_json(..), amount)
Execute ==
    /\ pc = "main" /\ cmd = "execute"
    /\ RunOnContract("execute", amount)
    /\ UNCHANGED << overflow_checks, registry, dec_in, dec_src, dec_kind,
                    dec_out, sum_events, sum_encoding, sum_out, cmd,
                    contract_name, json_readable, tx_hash, amount >>

\* "query" => query_contract(get_contract_address(..), get_json(..))
Query ==
    /\ pc = "main" /\ cmd = "query"
    /\ RunOnContract("query", << >>)
    /\ UNCHANGED << overflow_checks, registry, dec_in, dec_src, dec_kind,
                    dec_out, sum_events, sum_encoding, sum_out, cmd,
                    contract_name, json_readable, tx_hash, amount >>

\* The handler ended with effect e.
Ends(e) ==
    /\ out' = out \o e.out
    /\ err' = err \o e.err
    /\ panic' = e.panic
    /\ parse_attempts' = parse_attempts + e.parses
    /\ pc' = IF e.panic = "" THEN "done" ELSE "panicked"

\* "get_tx_events" => ...
GetTxEvents ==
    /\ pc = "main" /\ cmd = "get_tx_events"
    /\ IF tx_hash = << >>
       THEN /\ out' = Append(out, Line(NeedHash))
            /\ pc' = "done"
            /\ UNCHANGED << daemon_calls, output, parse_attempts, err, panic >>
       ELSE \E o \in Outputs :
               /\ daemon_calls' = Append(daemon_calls,
                                         Call("tx", tx_hash, << >>))
               /\ output' = o
               /\ Ends(get_tx_data(o, registry, overflow_checks))
    /\ UNCHANGED << overflow_checks, registry, dec_in, dec_src, dec_kind,
                    dec_out, sum_events, sum_encoding, sum_out, cmd,
                    contract_name, json_readable, tx_hash, amount, address >>

\* _ => println!("Cmd should be either query or execute")
OtherCmd ==
    /\ pc = "main" /\ cmd \notin { "execute", "query", "get_tx_events" }
    /\ out' = Append(out, Line(BadCmd))
    /\ pc' = "done"
    /\ UNCHANGED << overflow_checks, registry, dec_in, dec_src, dec_kind,
                    dec_out, sum_events, sum_encoding, sum_out, cmd,
                    contract_name, json_readable, tx_hash, amount, address,
                    daemon_calls, output, parse_attempts, err, panic >>

----------------------------------------------------------------------------
(* The specifications.                                                     *)

NameMissing == Txt(<< "m", "i", "s", "s", "i", "n", "g" >>)
HashAB == Txt(<< "A", "B" >>)
AmountArg ==
    Txt(<< "-", "-", "a", "m", "o", "u", "n", "t", "=", "1", "u", "o", "s",
           "m", "o" >>)

Init ==
    /\ pc = "main"
    /\ overflow_checks \in BOOLEAN
    /\ registry \in Registries
    /\ cmd \in { "execute", "query", "get_tx_events", "help" }
    /\ contract_name \in { << >>, NameVault, NameMissing }
    /\ json_readable \in BOOLEAN
    /\ tx_hash \in { << >>, HashAB }
    /\ amount \in { << >>, AmountArg }
    /\ address = << >> /\ daemon_calls = << >> /\ output = NoOutput
    /\ parse_attempts = 0 /\ out = << >> /\ err = << >> /\ panic = ""
    /\ DecodeIdle
    /\ SummarizeIdle

Next == Execute \/ Query \/ GetTxEvents \/ OtherCmd

Spec == Init /\ [][Next]_vars

InitDecode ==
    /\ pc = "decode"
    /\ \/ \E b \in SeqsUpTo(BytePool, MaxBytes) :
             /\ dec_in = Base64Encode(b)
             /\ dec_src = b
             /\ dec_kind = "encoded"
       \/ /\ dec_in \in OtherTexts
          /\ dec_src = << >>
          /\ dec_kind = "other"
    /\ dec_out = << >>
    /\ overflow_checks = TRUE
    /\ registry = << >>
    /\ SummarizeIdle
    /\ MainIdle

NextDecode == Decode

SpecDecode == InitDecode /\ [][NextDecode]_vars

InitSummarize ==
    /\ pc = "summarize"
    /\ overflow_checks \in BOOLEAN
    /\ registry \in Registries
    /\ sum_events \in SeqsUpTo(EventPool, MaxEvents)
    /\ sum_encoding \in BOOLEAN
    /\ sum_out = NoResult
    /\ DecodeIdle
    /\ MainIdle

NextSummarize == Summarize

SpecSummarize == InitSummarize /\ [][NextSummarize]_vars

----------------------------------------------------------------------------
(* Properties of summarize_events, under SpecSummarize.                    *)

Newline == Ord("\n")

NotSkipped(event) == event.event_type # SkippedType

\* The events of the call that are not of type "tx", in order.
Kept == SelectSeq(sum_events, NotSkipped)

\* The text cut after every newline: the blocks of a summary.
RECURSIVE Blocks(_)
Blocks(s) ==
    IF s = << >> THEN << >>
    ELSE IF \E i \in 1..Len(s) : s[i] = Newline
    THEN LET n == CHOOSE i \in 1..Len(s) :
                    /\ s[i] = Newline
                    /\ \A j \in 1..(i - 1) : s[j] # Newline
         IN  << SubSeq(s, 1, n) >> \o Blocks(SubSeq(s, n + 1, Len(s)))
    ELSE << s >>

\* Key and value of an attribute as they are shown.
ShownKey(a, encoding) ==
    IF encoding THEN from_utf8_lossy(decode(a.key)) ELSE a.key
ShownValue(a, encoding) ==
    IF encoding THEN from_utf8_lossy(decode(a.value)) ELSE a.value

\* "<k>: <v>" with the value followed by " (<name>)" when `named`.
Pair(k, v, named, name) ==
    k \o ColonSpace \o v
    \o (IF named THEN SpaceParen \o name \o CloseParen ELSE << >>)

\* The pairs joined by ", ", none after the last.
RECURSIVE JoinedPairs(_)
JoinedPairs(pairs) ==
    IF pairs = << >> THEN << >>
    ELSE IF Len(pairs) = 1 THEN pairs[1]
    ELSE pairs[1] \o CommaSpace \o JoinedPairs(Tail(pairs))

\* An attribute as the summary shows it: annotated with the first
\* registry name of its value, when there is one and it is not empty.
PairShown(a, encoding, reg) ==
    LET v == ShownValue(a, encoding)
        n == get_contract_name(reg, v)
    IN  Pair(ShownKey(a, encoding), v, n.some /\ n.val # << >>, n.val)

\* An attribute annotated whenever the registry holds a name for its value.
PairWhenFound(a, encoding, reg) ==
    LET v == ShownValue(a, encoding)
        n == get_contract_name(reg, v)
    IN  Pair(ShownKey(a, encoding), v, n.some, n.val)

BlockOf(event, pairs) ==
    Arrow \o event.event_type \o OpenParen \o JoinedPairs(pairs) \o CloseBlock

\* C1: after summarize_events, every event that is not of type "tx" and
\* has n >= 1 attributes has the block "--> <type>( <k1>: <v1>, ...,
\* <kn>: <vn> )\n": attributes in input order, ", " between them and none
\* after the last.
C1_BlockFormat ==
    pc = "summarized" =>
        LET blocks == Blocks(sum_out.s)
            kept   == Kept
        IN  /\ ~sum_out.panic
            /\ Len(blocks) = Len(kept)
            /\ \A k \in 1..Len(kept) :
                  kept[k].attributes # << >> =>
                     blocks[k] =
                        BlockOf(kept[k],
                                [i \in 1..Len(kept[k].attributes) |->
                                   PairShown(kept[k].attributes[i],
                                             sum_encoding, registry)])

\* A block of one attribute after a block of two has been summarized.
C1_Witness ==
    /\ pc = "summarized"
    /\ Len(Kept) = 2
    /\ Len(Kept[1].attributes) = 2
    /\ Len(Kept[2].attributes) = 1
    /\ sum_encoding
    /\ registry # << >>

\* C2: summarize_events does not fail on an event without attributes that
\* is not of type "tx", and the block of that event is "--> <type>(  )\n":
\* nothing of the header and nothing of the earlier output is cut.
C2_ZeroAttributeBlock ==
    pc = "summarized" =>
        LET blocks == Blocks(sum_out.s)
            kept   == Kept
        IN  /\ ~sum_out.panic
            /\ Len(blocks) = Len(kept)
            /\ \A k \in 1..Len(kept) :
                  kept[k].attributes = << >> =>
                     blocks[k] = BlockOf(kept[k], << >>)

\* The summary of each kept event on its own.
BlockAlone(event) ==
    summarize_events(<< event >>, sum_encoding, registry, overflow_checks).s

\* C3: the summary is the concatenation, in input order, of one block for
\* each event that is not of type "tx", and of nothing else; it is empty
\* when no such event exists.
C3_Concatenation ==
    pc = "summarized" =>
        LET blocks == Blocks(sum_out.s)
            kept   == Kept
        IN  /\ ~sum_out.panic
            /\ sum_out.s = Concat([k \in 1..Len(kept) |-> BlockAlone(kept[k])])
            /\ Len(blocks) = Len(kept)
            /\ \A k \in 1..Len(kept) :
                  SubSeq(blocks[k], 1, Len(Arrow) + Len(kept[k].event_type))
                     = Arrow \o kept[k].event_type
            /\ (kept = << >> => sum_out.s = << >>)

\* A "tx" event followed by another event has been summarized.
C3_Witness ==
    /\ pc = "summarized"
    /\ Len(sum_events) = 2
    /\ sum_events[1].event_type = SkippedType
    /\ sum_events[2].event_type # SkippedType
    /\ sum_out.s # << >>

\* C5: every attribute is shown as "k: v (<name>)" when get_contract_name
\* finds a name for v, and as "k: v" when it finds none.
C5_AnnotatedWhenFound ==
    pc = "summarized" =>
        LET blocks == Blocks(sum_out.s)
            kept   == Kept
        IN  /\ Len(blocks) = Len(kept)
            /\ \A k \in 1..Len(kept) :
                  kept[k].attributes # << >> =>
                     blocks[k] =
                        BlockOf(kept[k],
                                [i \in 1..Len(kept[k].attributes) |->
                                   PairWhenFound(kept[k].attributes[i],
                                                 sum_encoding, registry)])

----------------------------------------------------------------------------
(* Properties of decode, under SpecDecode.                                 *)

\* C4: decode always returns bytes; the encoding of b decodes to b, and a
\* text that is no base64 comes back as its own bytes.
C4_DecodeTotal ==
    pc = "decoded" =>
        /\ \A i \in 1..Len(dec_out) : dec_out[i] \in 0..255
        /\ (dec_kind = "encoded" => dec_out = dec_src)
        /\ (dec_kind = "other" => dec_out = dec_in)

\* Three bytes that are no UTF-8 text went through encoding and decode.
C4_Witness ==
    /\ pc = "decoded"
    /\ dec_kind = "encoded"
    /\ dec_src = << 0, 128, 255 >>
    /\ dec_out = dec_src

----------------------------------------------------------------------------
(* Properties of main and get_tx_data, under Spec.                         *)

IsKey(name) == \E i \in 1..Len(registry) : registry[i].name = name

OnContract == cmd \in { "execute", "query" }

\* get_tx_data has run.
TxQueried ==
    cmd = "get_tx_events" /\ pc # "main" /\ daemon_calls # << >>

TxParsed == TxQueried /\ output.success /\ output.stdout.kind = "tx"

\* C6: get_contract_address yields the registered address of a known name
\* and fails on any other; on execute and query the failure ends the
\* program before osmosisd runs, so that every osmosisd command on a
\* contract carries the address registered for the name given.
C6_ResolvedBeforeDaemon ==
    /\ \A i \in 1..Len(daemon_calls) :
          daemon_calls[i].verb \in { "execute", "query" } =>
             \E j \in 1..Len(registry) :
                /\ registry[j].name = contract_name
                /\ registry[j].address = daemon_calls[i].target
    /\ (OnContract /\ pc # "main" /\ ~IsKey(contract_name)) =>
          /\ pc = "panicked"
          /\ panic = "Invalid contract name"
          /\ daemon_calls = << >>
          /\ out = << >>
    /\ (OnContract /\ pc = "done") =>
          /\ IsKey(contract_name)
          /\ Len(daemon_calls) = 1
          /\ daemon_calls[1].target = address

\* execute with a name the registry does not hold, the file of --json
\* readable: the program has ended without a run of osmosisd.
C6_Witness ==
    /\ cmd = "execute"
    /\ contract_name = NameMissing
    /\ registry # << >>
    /\ json_readable
    /\ pc = "panicked"
    /\ daemon_calls = << >>

\* C7: a parsed reply with no message ends the handler with the explicit
\* EmptyMessagesError, one with no log with an explicit empty-logs error.
C7_CheckedFirstElement ==
    /\ (TxParsed /\ output.stdout.data.messages = << >>) =>
          panic = "EmptyMessagesError"
    /\ (TxParsed /\ output.stdout.data.messages # << >>
          /\ output.stdout.data.logs = << >>) =>
          panic = "EmptyLogsError"

ParseFailed == TxQueried /\ output.success /\ output.stdout.kind # "tx"

\* C8 as stated: a reply that does not parse ends the handler with the
\* parse error and nothing on standard output.
C8_NoOutputAtAll ==
    ParseFailed => (panic = "Failed to parse JSON" /\ out = << >>)

\* C8 as amended: a reply that does not parse ends the handler with the
\* parse error; standard output holds the echo of the reply and nothing
\* else.
C8_OnlyTheEcho ==
    ParseFailed =>
        /\ pc = "panicked"
        /\ panic = "Failed to parse JSON"
        /\ parse_attempts = 1
        /\ out = << RawItem(output.stdout) >>
        /\ err = << >>

\* A reply that is JSON of another shape has been handled.
C8_Witness ==
    /\ ParseFailed
    /\ output.stdout.kind = "wrong_shape"
    /\ pc = "panicked"

\* C9: a reply that parses and has a first message and a first log is
\* reported as: the reply, the sender block, the messages block with every
\* message in order, the events block with the decoded summary of the
\* events, the logs block with the undecoded summary of the first log.
C9_ReportOrder ==
    (TxParsed /\ output.stdout.data.messages # << >>
        /\ output.stdout.data.logs # << >>) =>
        /\ pc = "done"
        /\ panic = ""
        /\ err = << >>
        /\ out = << RawItem(output.stdout),
                    Line(HdrSender),
                    Line(output.stdout.data.messages[1].sender),
                    Line(HdrMessages) >>
                 \o [i \in 1..Len(output.stdout.data.messages) |->
                       MessageItem(output.stdout.data.messages[i])]
                 \o << Line(HdrEvents),
                       Line(summarize_events(output.stdout.data.events, TRUE,
                                             registry, overflow_checks).s),
                       Line(HdrLogs),
                       Line(summarize_events(
                               output.stdout.data.logs[1].events, FALSE,
                               registry, overflow_checks).s) >>

\* Two messages, two logs and events of both kinds have been reported with
\* a registry that names the address.
C9_Witness ==
    /\ TxParsed
    /\ pc = "done"
    /\ Len(output.stdout.data.messages) = 2
    /\ Len(output.stdout.data.logs) = 2
    /\ output.stdout.data.events = << EvTx, EvEncoded >>
    /\ registry # << >>
    /\ Len(out) = 10

\* C10: when osmosisd fails, the handler writes its error text behind
\* "Command execution failed: " to standard error, parses nothing and
\* writes nothing to standard output.
C10_DaemonFailure ==
    (TxQueried /\ ~output.success) =>
        /\ err = << FailedPrefix \o output.stderr >>
        /\ parse_attempts = 0
        /\ out = << >>
        /\ panic = ""

\* osmosisd failed with an error text although its output was a good reply.
C10_Witness ==
    /\ TxQueried
    /\ ~output.success
    /\ output.stderr # << >>
    /\ output.stdout.kind = "tx"
    /\ pc = "done"

====
